---- MODULE Spec2Model ----
(***************************************************************************)
(* The report dispatcher of src/index.js: one handler that, for every S3   *)
(* object record of an SNS-wrapped event, aggregates the artifacts of the  *)
(* record's run from S3, asks Bedrock for a summary and mails it with SES. *)
(*                                                                         *)
(* A string is a sequence of tokens.  A token is one character, or a       *)
(* literal word of the source (or of a key) that holds none of the         *)
(* characters the code looks at ("/", "+", "%", white space).  File texts  *)
(* are sequences of single characters, so Len is their .length.            *)
(*                                                                         *)
(* The handler is an async function: it runs from one await to the next    *)
(* without interruption.  A state of the model is the handler waiting for  *)
(* the external call held in `call`, or standing at the head of its record *)
(* loops (pc = "loop"); an action resumes it with the call's outcome.      *)
(***************************************************************************)
EXTENDS Integers, Sequences, FiniteSets, TLC

\* ---------------------------------------------------------------- bounds
MaxOuter == 2           \* outer (SNS) records of an event
MaxInner == 2           \* S3 records of one SNS message
MaxChars == 2           \* the truncation ceiling, scaled down from 60000

VARIABLES
  SUBJECT_PREFIX,  \* process.env.EMAIL_SUBJECT_PREFIX || ""
  status,          \* "idle" | "running" | "returned" | "thrown"
  result,          \* the handler's return value, <<>> while there is none
  recs,            \* outer records not yet started
  msg,             \* the current outer record's msg: Null, or whether the
                   \* parsed value has Records (the list itself is s3Recs)
  s3Recs,          \* S3 records of the current message not yet started
  pc,              \* "loop" | "list" | "get" | "fallback" | "bedrock" | "ses"
  call,            \* the external call in flight, NoCall when there is none
  key, run,        \* the current record's decoded key and its run
  which,           \* the listPrefixText call in progress: "tests" | "sonar"
  todo, out,       \* listPrefixText: objects still to fetch, sections so far
  tests,           \* the result of listPrefixText(test-results/<run>/)
  collected,       \* the aggregated buffer
  report,          \* the summary: Bedrock's text or the fallback report
  log,             \* the current record's completed calls, in order
  listed,          \* the keys each listing of the current record returned
  nRecords,        \* S3 records whose key was decoded in this invocation
  nBedrock, nSes,  \* inference calls and send attempts of this invocation
  sesFailed,       \* a send of this invocation has failed
  thrownBy         \* where the handler threw: "" | "json" | "key" | "uri"

vars == <<SUBJECT_PREFIX, status, result, recs, msg, s3Recs, pc, call, key, run,
          which, todo, out, tests, collected, report, log, listed,
          nRecords, nBedrock, nSes, sesFailed, thrownBy>>

\* ---------------------------------------------------------------- strings
Whitespace == {" ", "\n", "\t"}
HexDigits == {"0","1","2","3","4","5","6","7","8","9",
              "A","B","C","D","E","F","a","b","c","d","e","f"}

\* JavaScript truthiness of a string: the empty string is falsy.
Truthy(s) == s # <<>>

\* A nullable string: <<>> is null, <<s>> is the string s.
Null == <<>>
Some(s) == <<s>>
TruthyOpt(o) == o # Null /\ Truthy(o[1])

\* Array.prototype.join with a separator.
RECURSIVE Join(_, _)
Join(ss, sep) ==
  IF ss = <<>> THEN <<>>
  ELSE IF Len(ss) = 1 THEN ss[1]
  ELSE ss[1] \o sep \o Join(Tail(ss), sep)

\* String.prototype.split on a one-character separator: always at least one
\* segment, and an empty segment between two adjacent separators.
RECURSIVE Split(_, _)
Split(s, sep) ==
  IF s = <<>> THEN << <<>> >>
  ELSE LET rest == Split(Tail(s), sep)
       IN  IF Head(s) = sep THEN << <<>> >> \o rest
           ELSE << <<Head(s)>> \o rest[1] >> \o Tail(rest)

\* String.prototype.trim.
RECURSIVE TrimLeft(_)
TrimLeft(s) ==
  IF s # <<>> /\ Head(s) \in Whitespace THEN TrimLeft(Tail(s)) ELSE s

RECURSIVE TrimRight(_)
TrimRight(s) ==
  IF s # <<>> /\ s[Len(s)] \in Whitespace
  THEN TrimRight(SubSeq(s, 1, Len(s) - 1)) ELSE s

Trim(s) == TrimRight(TrimLeft(s))

\* key.replace(/\+/g, " ")
ReplacePlus(s) == [i \in 1..Len(s) |-> IF s[i] = "+" THEN " " ELSE s[i]]

\* The escapes the keys of the model use.
PercentTable == [p \in {<<"2","F">>, <<"2","0">>, <<"2","B">>} |->
                   CASE p = <<"2","F">> -> "/"
                     [] p = <<"2","0">> -> " "
                     [] p = <<"2","B">> -> "+"]

\* decodeURIComponent: a "%" must be followed by two hex digits that encode
\* a character, or the call throws URIError.
RECURSIVE decodeURIComponent(_)
decodeURIComponent(s) ==
  IF s = <<>> THEN [threw |-> FALSE, value |-> <<>>]
  ELSE IF Head(s) # "%"
  THEN LET r == decodeURIComponent(Tail(s))
       IN  [threw |-> r.threw,
            value |-> IF r.threw THEN <<>> ELSE <<Head(s)>> \o r.value]
  ELSE IF Len(s) < 3 \/ s[2] \notin HexDigits \/ s[3] \notin HexDigits
          \/ <<s[2], s[3]>> \notin DOMAIN PercentTable
  THEN [threw |-> TRUE, value |-> <<>>]
  ELSE LET r == decodeURIComponent(SubSeq(s, 4, Len(s)))
       IN  [threw |-> r.threw,
            value |-> IF r.threw THEN <<>>
                      ELSE <<PercentTable[<<s[2], s[3]>>]>> \o r.value]

\* ------------------------------------------------------- index.js helpers
\* `\n...[truncated ${s.length-max} chars]`
TruncMarker(n) == <<"\n...[truncated ", ToString(n), " chars]">>

\* A variant of truncate that cuts at the ceiling itself (>= for >).
truncateOffByOne(s, max) ==
  IF Len(s) >= max THEN SubSeq(s, 1, max) \o TruncMarker(Len(s) - max) ELSE s

\* const truncate = (s, max=60000) => s.length > max ? ... : s
truncate(s, max) ==
  IF Len(s) > max THEN SubSeq(s, 1, max) \o TruncMarker(Len(s) - max) ELSE s

\* const runOf = key => (key.split("/").length >= 3 ? key.split("/")[1] : null)
runOf(k) ==
  IF Len(Split(k, "/")) >= 3 THEN Some(Split(k, "/")[2]) ELSE Null

\* `\n--- FILE: ${key} ---\n${text}`
Section(k, text) == <<"\n--- FILE: ">> \o k \o <<" ---\n">> \o text

TestsPrefix(r) == <<"test-results", "/">> \o r \o <<"/">>
SonarPrefix(r) == <<"sonarqube", "/">> \o r \o <<"/">>

PromptHead == <<"You are a CI quality assistant. [...] <RAW_CI_DATA>\n">>
PromptTail == <<"\n</RAW_CI_DATA>">>
buildPrompt(allText) == Trim(<<"\n">> \o PromptHead \o allText \o PromptTail \o <<"\n">>)

NoDataFound == <<"(no CI data found)">>
NoDataCaptured == <<"(no CI data captured)">>
FailureNotice == <<"Bedrock failed to generate a report.\n\n">>
EmptyReport == <<"(empty report)">>

\* A variant of subjectOf that leaves the surrounding whitespace in place.
subjectOfUntrimmed(prefix, r) ==
  (IF Truthy(prefix) THEN prefix \o <<" ">> ELSE <<>>)
    \o <<"CI Report", " ">>
    \o (IF TruthyOpt(r) THEN <<"-", " ">> \o r[1] ELSE <<>>)

\* `${SUBJECT_PREFIX ? SUBJECT_PREFIX + " " : ""}CI Report ${run ? `- ${run}`
\* : ""}`.trim()
subjectOf(prefix, r) ==
  Trim((IF Truthy(prefix) THEN prefix \o <<" ">> ELSE <<>>)
       \o <<"CI Report", " ">>
       \o (IF TruthyOpt(r) THEN <<"-", " ">> \o r[1] ELSE <<>>))

\* ------------------------------------------------------------ the inputs
\* An S3 record of a message: complete, or with r.s3.object.key missing.
\* The text of a key is drawn when the handler reads it (RawKeys): the
\* handler never looks ahead in the event.
KeyRec == [hasKey |-> TRUE]
NoKeyRec == [hasKey |-> FALSE]
InnerRecs == {KeyRec, NoKeyRec}

SeqsUpTo(S, n) == UNION {[1..k -> S] : k \in 0..n}

\* rec.Sns.Message: absent, the empty string, a text that is not JSON, or
\* a JSON text.  What a JSON text holds is drawn when the handler parses it
\* (JsonValues), as the handler never reads a message before its turn.
NoMessage == [type |-> "undefined", json |-> FALSE]
EmptyMessage == [type |-> "empty", json |-> FALSE]
BadMessage == [type |-> "text", json |-> FALSE]
JsonMessage == [type |-> "text", json |-> TRUE]

Messages == {NoMessage, EmptyMessage, BadMessage, JsonMessage}

\* The value of a JSON message: one without Records, or an S3 event.
PlainJson == [hasRecords |-> FALSE, Records |-> <<>>]
S3Event(rs) == [hasRecords |-> TRUE, Records |-> rs]

JsonValues == {PlainJson} \cup {S3Event(rs) : rs \in SeqsUpTo(InnerRecs, MaxInner)}

\* An outer record: without Sns, or with Sns and its Message.
OuterRecs == {[hasSns |-> FALSE, Message |-> NoMessage]}
               \cup {[hasSns |-> TRUE, Message |-> m] : m \in Messages}

\* The invocation payload: without Records, or with a list of outer records.
Events == {[hasRecords |-> FALSE, Records |-> <<>>]}
            \cup {[hasRecords |-> TRUE, Records |-> rs] :
                    rs \in SeqsUpTo(OuterRecs, MaxOuter)}

\* The keys as the S3 notification carries them (percent-encoded).
RawKeys == { <<"test-results", "/", "r1", "/", "u">>,
             <<"sonarqube", "/", "r2", "/", "a", "+", "b">>,
             <<"x", "%", "2", "F", "r3", "/", "y">>,
             <<"a", "/", "/", "b">>,
             <<"d", "/", "e">>,
             <<"bad", "%", "z">> }

\* ------------------------------------------------------- the environment
Chars == <<"p", "q", "r", "s">>
Fill(n) == [i \in 1..n |-> Chars[((i - 1) % 4) + 1]]

Obj(k) == [hasKey |-> TRUE, Key |-> k]
ObjNoKey == [hasKey |-> FALSE, Key |-> <<>>]

\* The bucket: what ListObjectsV2 answers for a prefix (list.Contents).
Contents(prefix) ==
  CASE prefix = TestsPrefix(<<"r1">>) -> << Obj(TestsPrefix(<<"r1">>) \o <<"u">>) >>
    [] prefix = TestsPrefix(<<"r3">>) ->
         << Obj(TestsPrefix(<<"r3">>) \o <<"t1">>), ObjNoKey,
            Obj(TestsPrefix(<<"r3">>) \o <<"t2">>) >>
    [] prefix = SonarPrefix(<<"r3">>) -> << Obj(SonarPrefix(<<"r3">>) \o <<"s1">>) >>
    [] OTHER -> <<>>

\* The bucket: the Body GetObject answers for a key.
Body(k) ==
  CASE k = TestsPrefix(<<"r1">>) \o <<"u">> -> [kind |-> "bytes", text |-> Fill(1)]
    [] k = TestsPrefix(<<"r3">>) \o <<"t1">> -> [kind |-> "stream", text |-> Fill(MaxChars + 2)]
    [] k = TestsPrefix(<<"r3">>) \o <<"t2">> -> [kind |-> "string", text |-> Fill(MaxChars)]
    [] k = SonarPrefix(<<"r3">>) \o <<"s1">> -> [kind |-> "none", text |-> <<>>]
    [] k = <<"sonarqube", "/", "r2", "/", "a", " ", "b">> ->
         [kind |-> "stream", text |-> Fill(MaxChars + 1)]
    [] k = <<"d", "/", "e">> -> [kind |-> "none", text |-> <<>>]
    [] OTHER -> [kind |-> "string", text |-> Fill(1)]

\* bodyToString: "" for no body, else the body's text decoded as UTF-8.
bodyToString(body) == IF body.kind = "none" THEN <<>> ELSE body.text

\* What the model lets Bedrock answer: a response that is not JSON, JSON
\* without results[0].outputText, or JSON with an output text.
Summary == <<"Summary">>
BedrockAnswers == {"garbage", "noresults", "text"}

\* ------------------------------------------------------------ the handler
NoCall == [op |-> "none", at |-> "", arg |-> <<>>, arg2 |-> <<>>]
ListCall(prefix) == [op |-> "List", at |-> "listPrefixText", arg |-> prefix, arg2 |-> <<>>]
GetCall(k, where) == [op |-> "Get", at |-> where, arg |-> k, arg2 |-> <<>>]
BedrockCall(prompt) == [op |-> "Invoke", at |-> "handler", arg |-> prompt, arg2 |-> <<>>]
SesCall(subject, body) == [op |-> "Send", at |-> "sendEmail", arg |-> subject, arg2 |-> body]

Done(c, ok) == [op |-> c.op, at |-> c.at, arg |-> c.arg, arg2 |-> c.arg2, ok |-> ok]

NoListed == [tests |-> <<>>, sonar |-> <<>>, testsDone |-> FALSE, sonarDone |-> FALSE]

Init ==
  /\ SUBJECT_PREFIX \in {<<>>, <<"[CI]">>}
  /\ status = "idle" /\ result = <<>>
  /\ recs = <<>> /\ msg = Null /\ s3Recs = <<>>
  /\ pc = "loop" /\ call = NoCall
  /\ key = <<>> /\ run = Null /\ which = ""
  /\ todo = <<>> /\ out = <<>> /\ tests = <<>> /\ collected = <<>>
  /\ report = <<>>
  /\ log = <<>> /\ listed = NoListed
  /\ nRecords = 0 /\ nBedrock = 0 /\ nSes = 0
  /\ sesFailed = FALSE /\ thrownBy = ""

\* export const handler = async (event) => { const recs = event?.Records || [];
Invoke(event) ==
  /\ status = "idle"
  /\ status' = "running"
  /\ recs' = IF event.hasRecords THEN event.Records ELSE <<>>
  /\ UNCHANGED <<SUBJECT_PREFIX, result, msg, s3Recs, pc, call, key, run,
                 which, todo, out, tests, collected, report, log, listed,
                 nRecords, nBedrock, nSes, sesFailed, thrownBy>>

\* The handler throws: the rejection reaches the caller.
Throw(why) ==
  /\ status' = "thrown" /\ thrownBy' = why

\* JSON.parse of a message text that holds `value` when it is JSON.
JSONparse(m, value) == [threw |-> ~m.json, value |-> value]

\* A variant of HasMessage that parses the message of every record with an
\* Sns field, whatever the message is.
HasMessageAnySns(rec) == rec.hasSns

\* rec.Sns?.Message ? ... : null -- an absent and an empty message are falsy.
HasMessage(rec) == rec.hasSns /\ rec.Message.type = "text"

\* for (const rec of recs) { const msg = ...; const s3Recs = msg?.Records || [];
NextOuter(value) ==
  /\ status = "running" /\ pc = "loop" /\ s3Recs = <<>> /\ recs # <<>>
  /\ LET rec == Head(recs)
         hasMessage == HasMessage(rec)
         parsed == JSONparse(rec.Message, value)
     IN  IF hasMessage /\ parsed.threw
         THEN /\ Throw("json")
              /\ UNCHANGED <<recs, msg, s3Recs>>
         ELSE /\ recs' = Tail(recs)
              /\ msg' = IF hasMessage
                        THEN Some([hasRecords |-> parsed.value.hasRecords])
                        ELSE Null
              /\ s3Recs' = IF hasMessage /\ parsed.value.hasRecords
                           THEN parsed.value.Records ELSE <<>>
              /\ UNCHANGED <<status, thrownBy>>
  /\ UNCHANGED <<SUBJECT_PREFIX, result, pc, call, key, run, which, todo, out,
                 tests, collected, report, log, listed, nRecords, nBedrock,
                 nSes, sesFailed>>

\* return { ok: true };
Return ==
  /\ status = "running" /\ pc = "loop" /\ s3Recs = <<>> /\ recs = <<>>
  /\ status' = "returned" /\ result' = <<"ok">>
  /\ UNCHANGED <<SUBJECT_PREFIX, recs, msg, s3Recs, pc, call, key, run, which,
                 todo, out, tests, collected, report, log, listed, nRecords,
                 nBedrock, nSes, sesFailed, thrownBy>>

\* truncate(text) with its default ceiling.
truncateDefault(s) == truncate(s, MaxChars)

\* A variant of HasRun that tests run against null only (run !== null).
HasRunNotNull(r) == r # Null

\* if (run): null and the empty string are both falsy.
HasRun(r) == TruthyOpt(r)

\* A variant of pushSection that puts the section first (out.unshift).
pushSectionFront(secs, sec) == <<sec>> \o secs

\* out.push(section)
pushSection(secs, sec) == Append(secs, sec)

\* [tests, sonar].filter(Boolean).join("\n")
collect(t, s) ==
  Join(SelectSeq(<<t, s>>, Truthy), <<"\n">>)

\* A variant of FallbackNeeded that never falls back.
FallbackNever(c) == FALSE

\* if (!collected): the fallback to the triggering object.
FallbackNeeded(c) == ~Truthy(c)

\* A variant of fallbackReport that leaves the buffer out.
fallbackReportNoticeOnly(c) == FailureNotice

\* "Bedrock failed to generate a report.\n\n" + (collected || "(no CI data captured)")
fallbackReport(c) ==
  FailureNotice \o (IF Truthy(c) THEN c ELSE NoDataCaptured)

\* A variant of emailBody without the placeholder.
emailBodyAsIs(text) == text

\* report || "(empty report)"
emailBody(text) == IF Truthy(text) THEN text ELSE EmptyReport

\* The handler moves to its next await: the call it issues and its locals.
Goto(pc_, call_, which_, todo_, out_, tests_, collected_, report_) ==
  /\ pc' = pc_ /\ call' = call_ /\ which' = which_
  /\ todo' = todo_ /\ out' = out_ /\ tests' = tests_
  /\ collected' = collected_ /\ report' = report_
  /\ nBedrock' = nBedrock + (IF call_.op = "Invoke" THEN 1 ELSE 0)
  /\ nSes' = nSes + (IF call_.op = "Send" THEN 1 ELSE 0)

\* const prompt = buildPrompt(collected || "(no CI data found)"); bedrock.send
ToBedrock(c) ==
  Goto("bedrock", BedrockCall(buildPrompt(IF Truthy(c) THEN c ELSE NoDataFound)),
       "", <<>>, <<>>, <<>>, c, <<>>)

\* const subject = ...; sendEmail(subject, report || "(empty report)")
ToSes(rep) ==
  Goto("ses", SesCall(subjectOf(SUBJECT_PREFIX, run), emailBody(rep)),
       "", <<>>, <<>>, <<>>, collected, rep)

\* s3.send(new GetObjectCommand({ Key: key })) of the handler itself
ToFallback(k) ==
  Goto("fallback", GetCall(k, "handler"), "", <<>>, <<>>, <<>>, <<>>, <<>>)

\* listPrefixText(prefix): its listing call; t is the text of the first
\* listing once it is known.
ToList(w, r, t) ==
  Goto("list",
       ListCall(IF w = "tests" THEN TestsPrefix(r[1]) ELSE SonarPrefix(r[1])),
       w, <<>>, <<>>, t, <<>>, <<>>)

\* if (!collected) { fetch the triggering object } and on to the prompt.
AfterListings(c, k) ==
  IF FallbackNeeded(c) THEN ToFallback(k) ELSE ToBedrock(c)

\* A variant of S3Catch that hands on the sections fetched before the raise.
S3CatchKeepsPartial == ToBedrock(collect(tests, Join(out, <<"\n">>)))

\* catch (e) { err("S3 read error", ...) }: on to the prompt with the buffer
\* as it stands.
S3Catch == ToBedrock(collected)

\* for (const r of s3Recs) { const key = decodeURIComponent(...); ...
NextInner(raw) ==
  /\ status = "running" /\ pc = "loop" /\ s3Recs # <<>>
  /\ LET r == Head(s3Recs)
         d == decodeURIComponent(ReplacePlus(raw))
     IN  IF ~r.hasKey \/ d.threw
         THEN /\ Throw(IF ~r.hasKey THEN "key" ELSE "uri")
              /\ UNCHANGED <<s3Recs, key, run, nRecords, pc, call, which, todo,
                             out, tests, collected, report, nBedrock, nSes>>
         ELSE /\ s3Recs' = Tail(s3Recs)
              /\ key' = d.value
              /\ run' = runOf(d.value)
              /\ nRecords' = nRecords + 1
              /\ IF HasRun(runOf(d.value))
                 THEN ToList("tests", runOf(d.value), <<>>)
                 ELSE AfterListings(<<>>, d.value)
              /\ UNCHANGED <<status, thrownBy>>
  /\ UNCHANGED <<SUBJECT_PREFIX, result, recs, msg, sesFailed, log, listed>>

\* What stays as it is while the handler works on a record.
RecordFrame ==
  UNCHANGED <<SUBJECT_PREFIX, status, result, recs, msg, s3Recs, key, run,
              nRecords, sesFailed, thrownBy>>

\* for (const obj of list.Contents || []) { if (!obj.Key) continue; ...
RECURSIVE DropNoKey(_)
DropNoKey(objs) ==
  IF objs # <<>> /\ ~Head(objs).hasKey THEN DropNoKey(Tail(objs)) ELSE objs

\* listPrefixText returns out.join("\n"): the handler goes on to the second
\* listing, or joins the two texts and falls back or builds the prompt.
FinishListing(secs) ==
  LET text == Join(secs, <<"\n">>)
  IN  IF which = "tests"
      THEN ToList("sonar", run, text)
      ELSE AfterListings(collect(tests, text), key)

\* A variant of ContinueListing that does not wait for the fetches of the
\* listed objects (the awaits of the loop left out).
ContinueListingNoAwait(objs, secs) == FinishListing(secs)

\* The loop of listPrefixText: fetch the next listed object that has a Key.
ContinueListing(objs, secs) ==
  LET rest == DropNoKey(objs)
  IN  IF rest # <<>>
      THEN Goto("get", GetCall(Head(rest).Key, "listPrefixText"),
                which, Tail(rest), secs, tests, <<>>, <<>>)
      ELSE FinishListing(secs)

KeysOf(objs) ==
  LET withKey == SelectSeq(objs, LAMBDA o : o.hasKey)
  IN  [i \in 1..Len(withKey) |-> withKey[i].Key]

\* await s3.send(new ListObjectsV2Command(...)) answers.
ListOk ==
  /\ status = "running" /\ pc = "list"
  /\ log' = Append(log, Done(call, TRUE))
  /\ listed' = IF which = "tests"
               THEN [listed EXCEPT !.tests = KeysOf(Contents(call.arg)),
                                   !.testsDone = TRUE]
               ELSE [listed EXCEPT !.sonar = KeysOf(Contents(call.arg)),
                                   !.sonarDone = TRUE]
  /\ ContinueListing(Contents(call.arg), <<>>)
  /\ RecordFrame

\* await s3.send(new ListObjectsV2Command(...)) rejects.
ListRaise ==
  /\ status = "running" /\ pc = "list"
  /\ log' = Append(log, Done(call, FALSE))
  /\ S3Catch
  /\ UNCHANGED listed
  /\ RecordFrame

\* listPrefixText: the fetch of a listed object answers and its body is read.
GetOk ==
  /\ status = "running" /\ pc = "get"
  /\ log' = Append(log, Done(call, TRUE))
  /\ ContinueListing(todo,
       pushSection(out, Section(call.arg,
                                truncateDefault(bodyToString(Body(call.arg))))))
  /\ UNCHANGED listed
  /\ RecordFrame

\* listPrefixText: the fetch rejects, or the stream of its body fails.
GetRaise(why) ==
  /\ status = "running" /\ pc = "get"
  /\ why = "stream" => Body(call.arg).kind = "stream"
  /\ log' = Append(log, Done(call, FALSE))
  /\ S3Catch
  /\ UNCHANGED listed
  /\ RecordFrame

\* The handler's own fetch of the triggering object answers.
FallbackOk ==
  /\ status = "running" /\ pc = "fallback"
  /\ log' = Append(log, Done(call, TRUE))
  /\ ToBedrock(Section(key, truncateDefault(bodyToString(Body(call.arg)))))
  /\ UNCHANGED listed
  /\ RecordFrame

\* The handler's own fetch rejects, or the stream of its body fails.
FallbackRaise(why) ==
  /\ status = "running" /\ pc = "fallback"
  /\ why = "stream" => Body(call.arg).kind = "stream"
  /\ log' = Append(log, Done(call, FALSE))
  /\ S3Catch
  /\ UNCHANGED listed
  /\ RecordFrame

\* JSON.parse(new TextDecoder().decode(resp.body)) of a Bedrock answer, and
\* decoded?.results?.[0]?.outputText ?? "".
outputTextOf(answer) == IF answer = "text" THEN Summary ELSE <<>>

\* await bedrock.send(...) answers and the answer parses.
BedrockOk(answer) ==
  /\ status = "running" /\ pc = "bedrock"
  /\ answer # "garbage"
  /\ log' = Append(log, Done(call, TRUE))
  /\ ToSes(outputTextOf(answer))
  /\ UNCHANGED listed
  /\ RecordFrame

\* A variant of BedrockFail that gives the record up (continue) instead of
\* sending the fallback report.
BedrockFailSkipsSend(why) ==
  /\ status = "running" /\ pc = "bedrock"
  /\ log' = <<>> /\ listed' = NoListed
  /\ Goto("loop", NoCall, "", <<>>, <<>>, <<>>, <<>>, <<>>)
  /\ key' = <<>> /\ run' = Null
  /\ UNCHANGED <<SUBJECT_PREFIX, status, result, recs, msg, s3Recs, nRecords,
                 sesFailed, thrownBy>>

\* await bedrock.send(...) rejects, or its answer is not JSON: the catch.
BedrockFail(why) ==
  /\ status = "running" /\ pc = "bedrock"
  /\ log' = Append(log, Done(call, FALSE))
  /\ ToSes(fallbackReport(collected))
  /\ UNCHANGED listed
  /\ RecordFrame

\* The end of one iteration: the locals of the record go out of scope.
EndRecord ==
  /\ Goto("loop", NoCall, "", <<>>, <<>>, <<>>, <<>>, <<>>)
  /\ key' = <<>> /\ run' = Null
  /\ log' = <<>> /\ listed' = NoListed

\* await sendEmail(...) returns.
SesOk ==
  /\ status = "running" /\ pc = "ses"
  /\ EndRecord
  /\ UNCHANGED <<SUBJECT_PREFIX, status, result, recs, msg, s3Recs, nRecords,
                 sesFailed, thrownBy>>

\* await sendEmail(...) rejects: catch (e) { err("SES send error", ...) }
SesRaise ==
  /\ status = "running" /\ pc = "ses"
  /\ EndRecord
  /\ sesFailed' = TRUE
  /\ UNCHANGED <<SUBJECT_PREFIX, status, result, recs, msg, s3Recs, nRecords,
                 thrownBy>>

Next ==
  \/ \E event \in Events : Invoke(event)
  \/ \E value \in JsonValues : NextOuter(value)
  \/ \E raw \in RawKeys : NextInner(raw)
  \/ ListOk
  \/ ListRaise
  \/ GetOk
  \/ \E why \in {"s3", "stream"} : GetRaise(why)
  \/ FallbackOk
  \/ \E why \in {"s3", "stream"} : FallbackRaise(why)
  \/ \E answer \in BedrockAnswers : BedrockOk(answer)
  \/ \E why \in {"raise", "garbage"} : BedrockFail(why)
  \/ SesOk
  \/ SesRaise
  \/ Return

Spec == Init /\ [][Next]_vars

TypeOK ==
  /\ status \in {"idle", "running", "returned", "thrown"}
  /\ pc \in {"loop", "list", "get", "fallback", "bedrock", "ses"}
  /\ (pc = "loop") = (call = NoCall)

\* ----------------------------------------------------- reading the state
\* The handler is working on a record (between its decode and its send).
InRecord == status = "running" /\ pc # "loop"

\* The calls the current record has issued: the completed ones and the one
\* in flight, each as <<op, at, arg>>.
Sig(c) == <<c.op, c.at, c.arg>>
Issued ==
  [i \in 1..Len(log) |-> Sig(log[i])]
    \o (IF call = NoCall THEN <<>> ELSE <<Sig(call)>>)

Entries(op, at) == SelectSeq(log, LAMBDA e : e.op = op /\ e.at = at)

\* The aggregation of the current record is over: its try block was left.
AggDone == InRecord /\ pc \in {"bedrock", "ses"}

\* A listing or a fetch of the current record has raised.
S3Raised == \E i \in 1..Len(log) : log[i].op \in {"List", "Get"} /\ ~log[i].ok

\* The inference call of the current record has failed.
BedrockFailed == \E i \in 1..Len(log) : log[i].op = "Invoke" /\ ~log[i].ok

\* The inference call of the current record has answered.
BedrockAnswered == \E i \in 1..Len(log) : log[i].op = "Invoke" /\ log[i].ok

\* What truncation at the default ceiling is to give for a text, written out
\* with the ceiling and the count of the characters cut.
ExpectedTrunc(s) ==
  IF Len(s) <= MaxChars THEN s
  ELSE SubSeq(s, 1, MaxChars)
         \o <<"\n...[truncated ", ToString(Len(s) - MaxChars), " chars]">>

\* The delimited section the bucket's object under k is to give.
ExpectedSection(k) ==
  <<"\n--- FILE: ">> \o k \o <<" ---\n">>
    \o ExpectedTrunc(IF Body(k).kind = "none" THEN <<>> ELSE Body(k).text)

ExpectedSections(keys) == [i \in 1..Len(keys) |-> ExpectedSection(keys[i])]

IsPrefix(a, b) == Len(a) <= Len(b) /\ SubSeq(b, 1, Len(a)) = a

ListingGets == Entries("Get", "listPrefixText")
FallbackGets == Entries("Get", "handler")

\* A call of listPrefixText (its listing or one of its fetches) has raised.
ListingRaised ==
  \E i \in 1..Len(log) : log[i].at = "listPrefixText" /\ ~log[i].ok

\* The two listings have returned and together they produced content.
ListingContent ==
  /\ listed.testsDone /\ listed.sonarDone /\ ~ListingRaised
  /\ listed.tests \o listed.sonar # <<>>

\* The handler fetched the triggering object, and nothing else, and the
\* buffer is that object's section.
FetchedOnlyTrigger ==
  /\ Len(FallbackGets) = 1 /\ FallbackGets[1].arg = key
  /\ ListingGets = <<>>

\* --------------------------------------------------------- the properties

\* C1: an outer record whose message is not valid JSON does not make the
\* handler throw; it contributes no object record and the later outer
\* records with a valid message are still processed.  (Stated here as: the
\* handler is never found thrown on a malformed message with a valid
\* message still waiting behind it.)
C1_MalformedMessageIsSkipped ==
  ~(/\ status = "thrown" /\ thrownBy = "json"
    /\ \E i \in 2..Len(recs) : recs[i].hasSns /\ recs[i].Message = JsonMessage)

\* C2: whatever fails for a record, key decoding included (a record without
\* s3.object.key, a key with invalid percent-encoding), the handler goes on
\* to the next record and in the end returns {ok: true}: it never throws
\* while decoding a key.
C2_KeyDecodingNeverThrows ==
  ~(status = "thrown" /\ thrownBy \in {"key", "uri"})

\* C3: when the inference call of a record fails, the failure is not raised
\* to the caller and delivery is attempted with the fixed failure notice
\* followed by the record's whole aggregated buffer, or by the placeholder
\* when the buffer is empty.
C3_FallbackReportIsDelivered ==
  BedrockFailed =>
    /\ status = "running" /\ pc = "ses" /\ call.op = "Send"
    /\ call.arg2 = <<"Bedrock failed to generate a report.\n\n">>
                     \o (IF collected # <<>> THEN collected
                         ELSE <<"(no CI data captured)">>)
    /\ S3Raised => collected = <<>>
    /\ ~S3Raised =>
         collected = Join(ExpectedSections(
                            IF FallbackGets # <<>> THEN <<key>>
                            ELSE listed.tests \o listed.sonar), <<"\n">>)

C3_Witness ==
  /\ BedrockFailed /\ pc = "ses" /\ collected # <<>>
  /\ Len(Entries("Get", "listPrefixText")) >= 2

\* C4: every record whose key was decoded gets exactly one inference call
\* and exactly one send attempt, whatever the outcome of its stages: before
\* the inference call of the current record both counts are one short of
\* the number of decoded records, between the two calls only the send count
\* is, and at every record boundary (the end of the invocation included)
\* the three numbers are equal.
C4_OneInferenceOneSendPerRecord ==
  /\ pc \in {"list", "get", "fallback"} =>
       nBedrock = nRecords - 1 /\ nSes = nRecords - 1
  /\ pc = "bedrock" => nBedrock = nRecords /\ nSes = nRecords - 1
  /\ pc \in {"ses", "loop"} => nBedrock = nRecords /\ nSes = nRecords
  /\ Len(SelectSeq(Issued, LAMBDA c : c[1] = "Invoke")) <= 1
  /\ Len(SelectSeq(Issued, LAMBDA c : c[1] = "Send")) <= 1

C4_Witness ==
  status = "returned" /\ nRecords >= 2 /\ nSes = nRecords /\ sesFailed

C6_SendFailureNeverEndsInvocation ==
  sesFailed => status # "thrown"

\* C7: the body of every send is non-empty: the inference output when that
\* is non-empty, the fallback report when inference failed, and the literal
\* placeholder when the summary is empty.
C7_BodyNeverEmpty ==
  call.op = "Send" =>
    /\ call.arg2 # <<>>
    /\ (BedrockAnswered /\ report # <<>>) => call.arg2 = <<"Summary">>
    /\ BedrockFailed =>
         /\ call.arg2 = report
         /\ SubSeq(report, 1, 1) = <<"Bedrock failed to generate a report.\n\n">>
    /\ report = <<>> => call.arg2 = <<"(empty report)">>

C7_Witness ==
  call.op = "Send" /\ BedrockAnswered /\ report = <<>>

\* The calls listPrefixText is to issue for the run, given what the listings
\* returned so far: the test-results listing, a fetch per key it returned,
\* in its order, then the same for sonarqube.
ListSig(prefix) == <<"List", "listPrefixText", prefix>>
GetSigs(keys) == [i \in 1..Len(keys) |-> <<"Get", "listPrefixText", keys[i]>>]
ExpectedListingCalls ==
  <<ListSig(<<"test-results", "/">> \o run[1] \o <<"/">>)>>
    \o GetSigs(listed.tests)
    \o <<ListSig(<<"sonarqube", "/">> \o run[1] \o <<"/">>)>>
    \o GetSigs(listed.sonar)

IssuedByListing == SelectSeq(Issued, LAMBDA c : c[2] = "listPrefixText")

\* C8: a buffer aggregated from the listings holds one section per listed
\* key, in listing order, the test-results sections before the sonarqube
\* ones (and the listings that return keys without a raise do give such a
\* buffer); the test-results listing and its fetches, in listing order, are
\* issued before the sonarqube listing and its fetches.
C8_SectionsInListingOrder ==
  (InRecord /\ TruthyOpt(run)) =>
    /\ IsPrefix(IssuedByListing, ExpectedListingCalls)
    /\ pc = "get" =>
         out = ExpectedSections(SubSeq(IF which = "tests" THEN listed.tests
                                        ELSE listed.sonar, 1, Len(out)))
    /\ (AggDone /\ ListingContent) => collected # <<>>
    /\ (AggDone /\ collected # <<>> /\ FallbackGets = <<>>) =>
         collected = Join(ExpectedSections(listed.tests \o listed.sonar), <<"\n">>)

C8_Witness ==
  /\ AggDone /\ ListingContent
  /\ Len(listed.tests) >= 2 /\ Len(listed.sonar) >= 1
  /\ Len(ListingGets) = 3

\* The second "/"-separated segment of a key with at least three segments.
SlashAt(k) == {i \in 1..Len(k) : k[i] = "/"}
Min(S) == CHOOSE x \in S : \A y \in S : x <= y
ExpectedRun(k) ==
  IF Cardinality(SlashAt(k)) >= 2
  THEN LET i1 == Min(SlashAt(k))
           i2 == Min(SlashAt(k) \ {i1})
       IN  <<SubSeq(k, i1 + 1, i2 - 1)>>
  ELSE <<>>

ListsIssued == SelectSeq(Issued, LAMBDA c : c[1] = "List")

\* C9, as the specification states it: the grouping key is the second segment of a key of at
\* least three segments and absent otherwise, and whenever one is derived
\* (the empty one of a//b included) the handler lists test-results/<group>/
\* and, when nothing raises, sonarqube/<group>/.
C9_ListsForEveryDerivedGroup ==
  InRecord =>
    /\ run = ExpectedRun(key)
    /\ run # <<>> =>
         /\ Issued[1] = ListSig(<<"test-results", "/">> \o run[1] \o <<"/">>)
         /\ (AggDone /\ ~S3Raised) =>
              ListsIssued = <<ListSig(<<"test-results", "/">> \o run[1] \o <<"/">>),
                              ListSig(<<"sonarqube", "/">> \o run[1] \o <<"/">>)>>

\* C9, as the code has it: the handler lists the two prefixes only for a non-empty
\* grouping key (test-results first, sonarqube once the first listing and
\* its fetches have succeeded); for the empty grouping key of a//b, as for
\* no grouping key, it lists nothing and fetches the triggering object.
C9_ListsForEveryNonEmptyGroup ==
  InRecord =>
    /\ run = ExpectedRun(key)
    /\ (run # <<>> /\ run[1] # <<>>) =>
         /\ Issued[1] = ListSig(<<"test-results", "/">> \o run[1] \o <<"/">>)
         /\ IsPrefix(ListsIssued,
                     <<ListSig(<<"test-results", "/">> \o run[1] \o <<"/">>),
                       ListSig(<<"sonarqube", "/">> \o run[1] \o <<"/">>)>>)
         /\ (AggDone /\ ~S3Raised) => Len(ListsIssued) = 2
    /\ (run = <<>> \/ run[1] = <<>>) =>
         /\ ListsIssued = <<>>
         /\ Issued[1] = <<"Get", "handler", key>>

C9_Witness ==
  InRecord /\ run = << <<>> >> /\ pc = "fallback" /\ call.arg = <<"a", "/", "/", "b">>

\* C10: a text longer than the ceiling becomes its first ceiling characters
\* followed by the marker with the exact count of the characters cut, a
\* text at or under the ceiling is unchanged, for every text and ceiling;
\* and every file is truncated on its own, on the listing path and on the
\* fallback path.
C10_TruncationIsExact ==
  /\ \A n \in 0..(MaxChars + 2), m \in 0..(MaxChars + 1) :
       LET s == Fill(n)
           t == truncate(s, m)
       IN  IF n > m
           THEN /\ Len(t) = m + 3
                /\ SubSeq(t, 1, m) = SubSeq(s, 1, m)
                /\ t[m + 1] = "\n...[truncated "
                /\ t[m + 2] = ToString(n - m)
                /\ t[m + 3] = " chars]"
           ELSE t = s
  /\ (InRecord /\ pc = "get") =>
       \A i \in 1..Len(out) :
         out[i] = ExpectedSection((IF which = "tests" THEN listed.tests
                                   ELSE listed.sonar)[i])
  /\ (InRecord /\ which = "sonar") =>
       tests = Join(ExpectedSections(listed.tests), <<"\n">>)
  /\ (AggDone /\ FallbackGets # <<>> /\ FallbackGets[1].ok) =>
       collected = ExpectedSection(key)

C10_Witness ==
  /\ InRecord /\ which = "sonar" /\ Len(listed.tests) = 2
  /\ Len(Body(listed.tests[1]).text) > MaxChars
  /\ Len(Body(listed.tests[2]).text) = MaxChars
  /\ tests # <<>>

\* The subject written out piece by piece: the prefix and a space when there
\* is a prefix, 'CI Report', and ' - ' with the grouping key when the record
\* has a non-empty one.
ExpectedSubject(prefix, r) ==
  (IF prefix # <<>> THEN prefix \o <<" ">> ELSE <<>>)
    \o <<"CI Report">>
    \o (IF r # <<>> /\ r[1] # <<>> THEN <<" ", "-", " ">> \o r[1] ELSE <<>>)

\* C11: the subject is the optional prefix and a space, 'CI Report', then
\* ' - ' and the grouping key when the record has one, trimmed of
\* surrounding whitespace: '[CI]' with 'vpc' gives '[CI] CI Report - vpc',
\* no prefix with no group gives 'CI Report'; and every email-send the
\* handler issues carries that subject for the record's prefix and group.
C11_SubjectLine ==
  /\ subjectOf(<<"[CI]">>, Some(<<"vpc">>))
       = <<"[CI]", " ", "CI Report", " ", "-", " ", "vpc">>
  /\ subjectOf(<<>>, Null) = <<"CI Report">>
  /\ subjectOf(<<"[CI]">>, Null) = <<"[CI]", " ", "CI Report">>
  /\ subjectOf(<<>>, Some(<<"vpc">>)) = <<"CI Report", " ", "-", " ", "vpc">>
  /\ subjectOf(<<" ", "[CI]">>, Some(<<"vpc", " ">>))
       = <<"[CI]", " ", "CI Report", " ", "-", " ", "vpc">>
  /\ (InRecord /\ pc = "ses") =>
       /\ call.op = "Send"
       /\ call.arg = ExpectedSubject(SUBJECT_PREFIX, run)
       /\ call.arg[1] \notin Whitespace
       /\ call.arg[Len(call.arg)] \notin Whitespace

C11_Witness ==
  /\ InRecord /\ pc = "ses" /\ call.op = "Send"
  /\ SUBJECT_PREFIX = <<"[CI]">> /\ run = Some(<<"r1">>)
  /\ call.arg = <<"[CI]", " ", "CI Report", " ", "-", " ", "r1">>

\* The keys whose fetch completed, in the order they were fetched.
FetchedKeys ==
  LET gets == SelectSeq(log, LAMBDA e : e.op = "Get" /\ e.ok)
  IN  [i \in 1..Len(gets) |-> gets[i].arg]

\* The prompt of the record's inference call.
PromptIssued ==
  IF call.op = "Invoke" THEN call.arg
  ELSE LET inv == SelectSeq(log, LAMBDA e : e.op = "Invoke")
       IN  IF inv = <<>> THEN <<>> ELSE inv[1].arg

\* C12: when a listing or a fetch raises during the aggregation, the record
\* still goes on to its inference call and its email, the buffer handed to
\* the prompt holds the sections fetched before the raise, and the prompt
\* is built from '(no CI data found)' only when that buffer is empty.
C12_PartialBufferIsKept ==
  (AggDone /\ S3Raised) =>
    /\ \E i \in 1..Len(Issued) : Issued[i][1] = "Invoke"
    /\ collected = Join(ExpectedSections(FetchedKeys), <<"\n">>)
    /\ PromptIssued = buildPrompt(IF collected # <<>> THEN collected
                                  ELSE <<"(no CI data found)">>)

\* The stage of a call: storage, inference, delivery.
StageOf(op) == IF op \in {"List", "Get"} THEN 1 ELSE IF op = "Invoke" THEN 2 ELSE 3

\* The call the handler waits on at each await.
OpAwaited ==
  [p \in {"loop", "list", "get", "fallback", "bedrock", "ses"} |->
     CASE p = "loop" -> "none"
       [] p = "list" -> "List"
       [] p \in {"get", "fallback"} -> "Get"
       [] p = "bedrock" -> "Invoke"
       [] p = "ses" -> "Send"]

\* C13: one record at a time and one stage at a time. The handler waits on
\* exactly the one call in flight, and on none between records; the calls
\* of a record are issued storage first, then one inference call, then one
\* email-send, each after every earlier call of the record has completed or
\* failed; the inference call is issued only after the storage stage is
\* over (a raise, or both listings and every listed fetch done, or the
\* fallback fetch done); and when the handler turns to the next record,
\* every earlier record has had its inference call and its email-send
\* completed.
C13_OneCallAtATimeInOrder ==
  /\ call.op = OpAwaited[pc]
  /\ status # "running" => call = NoCall
  /\ \A i, j \in 1..Len(Issued) :
       i < j => /\ StageOf(Issued[i][1]) <= StageOf(Issued[j][1])
                /\ StageOf(Issued[i][1]) < StageOf(Issued[j][1])
                     \/ Issued[j][1] \in {"List", "Get"}
  /\ \A i \in 1..Len(log) :
       (~log[i].ok /\ log[i].op \in {"List", "Get"}) =>
         /\ AggDone
         /\ Issued[i + 1][1] = "Invoke"
  /\ (AggDone /\ ~S3Raised) =>
       /\ TruthyOpt(run) =>
            /\ listed.testsDone /\ listed.sonarDone
            /\ SelectSeq(log, LAMBDA e : e.at = "listPrefixText")
                 = [i \in 1..Len(ExpectedListingCalls) |->
                      [op |-> ExpectedListingCalls[i][1],
                       at |-> ExpectedListingCalls[i][2],
                       arg |-> ExpectedListingCalls[i][3],
                       arg2 |-> <<>>, ok |-> TRUE]]
       /\ (~TruthyOpt(run) \/ listed.tests \o listed.sonar = <<>>) =>
            Len(FallbackGets) = 1
  /\ (InRecord /\ pc = "ses") =>
       /\ Len(Entries("Invoke", "handler")) = 1
       /\ log[Len(log)].op = "Invoke"
  /\ pc = "loop" =>
       /\ log = <<>>
       /\ nBedrock = nRecords /\ nSes = nRecords
  /\ InRecord =>
       /\ nBedrock = nRecords - (IF pc \in {"bedrock", "ses"} THEN 0 ELSE 1)
       /\ nSes = nRecords - (IF pc = "ses" THEN 0 ELSE 1)

\* The second record of a message is at its email-send after a raise in its
\* storage stage, the first record having had all three stages.
C13_Witness ==
  /\ InRecord /\ pc = "ses" /\ nRecords = 2 /\ nSes = 2 /\ nBedrock = 2
  /\ S3Raised /\ Len(log) >= 3

\* The outer record carries no message field, or an empty one.
CarriesNoMessage(rec) ==
  ~rec.hasSns \/ rec.Message.type \in {"undefined", "empty"}

\* The handler is between two outer records, the next one at hand.
AtOuterRecord ==
  status = "running" /\ pc = "loop" /\ s3Recs = <<>> /\ recs # <<>>

\* The step made no call and started no object record.
NoCallMade ==
  /\ call' = NoCall /\ pc' = "loop" /\ s3Recs' = <<>>
  /\ nRecords' = nRecords /\ nBedrock' = nBedrock /\ nSes' = nSes

\* C14: an outer record without a message (or with an empty one) is passed
\* over without a throw and without a call, its msg being null; so is a
\* message whose JSON value has no Records; either way the handler stays
\* running with the next outer record at hand. While msg is null or without
\* Records no object record is pending and no call is in flight. A payload
\* without outer records starts no call, and the handler with nothing left
\* to process returns { ok: true } without a call.
C14_NothingToProcessMakesNoCall ==
  /\ [][(AtOuterRecord /\ CarriesNoMessage(Head(recs))) =>
          /\ status' = "running" /\ recs' = Tail(recs) /\ msg' = Null
          /\ NoCallMade]_vars
  /\ [][(AtOuterRecord /\ recs' = Tail(recs)
          /\ msg' = Some([hasRecords |-> FALSE])) =>
          /\ status' = "running"
          /\ NoCallMade]_vars
  /\ []((status = "running" /\ (msg = Null \/ ~msg[1].hasRecords)) =>
          /\ s3Recs = <<>> /\ pc = "loop" /\ call = NoCall /\ log = <<>>)
  /\ [][status = "idle" =>
          /\ status' = "running" /\ UNCHANGED result
          /\ NoCallMade /\ nRecords' = 0 /\ nBedrock' = 0 /\ nSes' = 0]_vars
  /\ [][(status = "running" /\ pc = "loop" /\ s3Recs = <<>> /\ recs = <<>>) =>
          /\ status' = "returned" /\ result' = <<"ok">>
          /\ NoCallMade]_vars

\* The handler has returned from a payload of two outer records, one of
\* them a JSON message without Records, with no call made.
C14_Witness ==
  /\ status = "returned" /\ result = <<"ok">>
  /\ msg = Some([hasRecords |-> FALSE])
  /\ nRecords = 0 /\ nBedrock = 0 /\ nSes = 0

\* C15: for a record with a grouping key, once a listing or a fetch of
\* listPrefixText has raised, the handler is past the aggregation with an
\* empty buffer and the '(no CI data found)' prompt, whatever was fetched
\* before, and has made no fetch of the triggering object; and such a fetch
\* is made only after both listings returned, nothing having raised, with
\* no content.
C15_RaiseEmptiesBufferAndSkipsFallback ==
  /\ (InRecord /\ TruthyOpt(run) /\ ListingRaised) =>
       /\ AggDone
       /\ FallbackGets = <<>>
       /\ \A i \in 1..Len(Issued) : Issued[i][2] = "handler" => Issued[i][1] # "Get"
       /\ collected = <<>>
       /\ PromptIssued = buildPrompt(<<"(no CI data found)">>)
  /\ (InRecord /\ TruthyOpt(run)
       /\ \E i \in 1..Len(Issued) : Issued[i][1] = "Get" /\ Issued[i][2] = "handler") =>
       /\ listed.testsDone /\ listed.sonarDone
       /\ ~ListingRaised
       /\ listed.tests \o listed.sonar = <<>>
       /\ ListingGets = <<>>

\* The whole test-results listing of the record was fetched, a later call
\* of the aggregation raised, and the buffer is empty.
C15_Witness ==
  /\ AggDone /\ TruthyOpt(run) /\ ListingRaised
  /\ listed.testsDone /\ Len(listed.tests) = 2
  /\ Len(SelectSeq(ListingGets, LAMBDA e : e.ok)) = 2
  /\ FallbackGets = <<>> /\ collected = <<>>

====
